---- MODULE Spec2Model ----
(***************************************************************************)
(* Object-export and live-update protocol of deephaven.plot.express:       *)
(* Exporter (reference table), DeephavenFigure (published payload),        *)
(* DeephavenFigureListener (recompute and push) and                        *)
(* DeephavenFigureConnection (session adapter), with notification threads, *)
(* a fetching reader and a peer running concurrently.                      *)
(***************************************************************************)
EXTENDS Integers, Sequences, FiniteSets, TLC

\* ------------------------------------------------------------------ bounds
\* notifications the data source delivers, each on a thread of its own
MaxUpdates == 2
\* fetches (to_bytes / export_figure) made by the external reader
MaxFetches == 1
\* adapters built (DeephavenFigureConnection objects)
MaxConnections == 1
\* inbound peer messages delivered to adapters
MaxInbound == 1
\* changes of the bound table's constituent count made by the data source
MaxTicks == 1

\* ------------------------------------------------------------------ values
None == "None"

\* the value of fig_lock while no thread holds it
Unlocked == 0

\* the notifications, numbered in the order in which they are delivered
Notifiers == 1..MaxUpdates

\* transport connections handed in by the host
Conns == {"c1"}

\* inbound peer messages: payload bytes and reference lists
InboundMessages == {<<"a", <<>>>>, <<"b", <<"t1">>>>}

\* the eight published fields of a DeephavenFigure, in the order in which
\* DeephavenFigure.on_update assigns them
FieldOrder ==
  <<"fig", "call", "call_args", "trace_generator", "has_template",
    "has_color", "_data_mappings", "has_subplots">>

Fields == {FieldOrder[i] : i \in 1..Len(FieldOrder)}

\* ------------------------------------------------------------------ dicts
\* A Python dict is a function from its keys; None (in a place where a dict
\* may stand) is the record NoneDict.
NoneDict == [None |-> TRUE]

IsNone(d) == DOMAIN d = {"None"}

\* bool(x) of a str or list value: both are sequences here
bool(v) == Len(v) > 0

\* bool(d) of a dict-or-None
dict_bool(d) == ~IsNone(d) /\ DOMAIN d # {}

\* faulty variant of has_color_args: only the "line" argument looked at
has_color_args_line_only(call_args) ==
  \E arg \in {"color_discrete_sequence_line"} :
    arg \in DOMAIN call_args /\ bool(call_args[arg])

\* has_color_args(call_args): some color argument is present and non-empty
has_color_args(call_args) ==
  \E arg \in {"color_discrete_sequence_line", "color_discrete_sequence_marker"} :
    arg \in DOMAIN call_args /\ bool(call_args[arg])

\* has_arg(call_args, check) with check a string
has_arg_str(call_args, check) ==
  IF dict_bool(call_args)
  THEN IF check \in DOMAIN call_args THEN bool(call_args[check]) ELSE FALSE
  ELSE FALSE

\* has_arg(call_args, check) with check the callable has_color_args
has_arg_callable(call_args) ==
  IF dict_bool(call_args) THEN has_color_args(call_args) ELSE FALSE

\* DeephavenFigure.__init__: the eight published fields of a new figure
\* (listener is None and fig_lock is a fresh free lock)
DeephavenFigure(fig, call, call_args, data_mappings, has_template, has_color, trace_generator, has_subplots) ==
  [fig |-> fig,
   call |-> call,
   call_args |-> call_args,
   trace_generator |-> trace_generator,
   has_template |-> IF has_template THEN has_template
                    ELSE has_arg_str(call_args, "template"),
   has_color |-> IF has_color THEN has_color
                 ELSE has_arg_callable(call_args),
   _data_mappings |-> data_mappings,
   has_subplots |-> has_subplots]

\* the defaults of DeephavenFigure.__init__ for has_template and has_color
default_has_template == FALSE
default_has_color == FALSE

\* ------------------------------------------------------------------ Exporter
\* Exporter.references is a dict obj -> Reference(index, obj); a Python dict
\* keeps insertion order, so it is the sequence of its items.
Reference(index, obj) == [index |-> index, obj |-> obj]

NewExporter == <<>>

InReferences(references, obj) ==
  \E i \in 1..Len(references) : references[i].key = obj

Lookup(references, obj) ==
  references[CHOOSE i \in 1..Len(references) : references[i].key = obj].value

\* faulty variant of referenceStore: a new Reference on every call, as the
\* docstring of Exporter.reference has it, without the "not in" test
referenceStore_always_new(references, obj) ==
  Append(references, [key |-> obj, value |-> Reference(Len(references), obj)])

\* Exporter.reference(obj): the dict after the call and the Reference returned
referenceStore(references, obj) ==
  IF ~InReferences(references, obj)
  THEN Append(references,
              [key |-> obj, value |-> Reference(Len(references), obj)])
  ELSE references

reference(references, obj) ==
  [references |-> referenceStore(references, obj),
   ret |-> Lookup(referenceStore(references, obj), obj)]

\* faulty variant of reference_list: the keys in an order other than insertion order
reference_list_reversed(references) ==
  [i \in 1..Len(references) |-> references[Len(references) + 1 - i].key]

\* Exporter.reference_list(): list(self.references.keys())
reference_list(references) ==
  [i \in 1..Len(references) |-> references[i].key]

\* ------------------------------------------------------------------ DataMapping
\* A data mapping: the table it points at and its column -> property pairs.
DataMapping(table, data_columns) ==
  [table |-> table, data_columns |-> data_columns]

\* DataMapping.get_links(exporter): one link per column/property pair, the
\* table resolved through exporter.reference
get_links(mapping, references) ==
  IF Len(mapping.data_columns) = 0
  THEN [references |-> references, links |-> <<>>]
  ELSE LET r == reference(references, mapping.table)
       IN [references |-> r.references,
           links |-> [i \in 1..Len(mapping.data_columns) |->
                        [table |-> r.ret.index,
                         column |-> mapping.data_columns[i][1],
                         property |-> mapping.data_columns[i][2]]]]

\* DeephavenFigure.get_json_links(exporter): the links of all mappings, in
\* order, and the exporter's dict after them
RECURSIVE get_json_links(_, _)
get_json_links(data_mappings, references) ==
  IF Len(data_mappings) = 0
  THEN [references |-> references, links |-> <<>>]
  ELSE LET head == get_links(data_mappings[1], references)
           rest == get_json_links(Tail(data_mappings), head.references)
       IN [references |-> rest.references, links |-> head.links \o rest.links]

\* json.dumps / json.loads / str.encode of a JSON-compatible document
json_dumps(doc) == [json |-> doc]
json_loads(s) == s.json
encode(s) == [bytes |-> s]

\* the document DeephavenFigure.to_json builds from the values it has read
payload_document(plotly, mappings, has_template, has_color) ==
  [plotly |-> plotly,
   deephaven |-> [mappings |-> mappings,
                  is_user_set_template |-> has_template,
                  is_user_set_color |-> has_color]]

\* DeephavenFigure.to_json(exporter) on a figure no other thread writes
to_json(f, references) ==
  LET l == get_json_links(f._data_mappings, references)
  IN [references |-> l.references,
      ret |-> json_dumps(payload_document(json_loads(json_dumps(f.fig)),
                                          l.links, f.has_template, f.has_color))]

\* DeephavenFigure.to_dict(exporter)
to_dict(f, references) ==
  LET j == to_json(f, references)
  IN [references |-> j.references, ret |-> json_loads(j.ret)]

\* ------------------------------------------------------------------ inputs
\* the px drawing function a figure is (re)built with
OrigFunc == "scatter"

\* what initialize_listener may be given: the table to bind ("pt" is a
\* PartitionedTable, "tbl" is not) and the argument template, whose table
\* entry is the table the chart was first built from
ListenerInputs ==
  {[table |-> "tbl",
    orig_args |-> [args |-> [table |-> "src", template |-> <<>>]]],
   [table |-> "pt",
    orig_args |-> [args |-> [table |-> "src", template |-> <<"dark">>,
                             color_discrete_sequence_line |-> <<"red">>]]]}

\* what a successful construction call may hand to DeephavenFigure.__init__
RenderChoices ==
  {[data_mappings |-> <<>>,
    has_template |-> FALSE, has_color |-> FALSE, has_subplots |-> FALSE],
   [data_mappings |-> <<DataMapping("t1", <<<<"x", "x">>, <<"y", "y">>>>),
                        DataMapping("t1", <<<<"z", "y">>>>)>>,
    has_template |-> TRUE, has_color |-> FALSE, has_subplots |-> TRUE],
   [data_mappings |-> <<DataMapping("t2", <<<<"x", "x">>>>),
                        DataMapping("t1", <<<<"y", "y">>>>)>>,
    has_template |-> FALSE, has_color |-> TRUE, has_subplots |-> FALSE]}

\* args_copy(orig_args): a copy of the template, equal to it in every entry
args_copy(orig_args) ==
  [k \in DOMAIN orig_args |-> orig_args[k]]

\* the identity of the dict object listener.orig_args["args"]
TemplateDict == 0

\* the identity of the dict object args_copy(orig_args)["args"] made in
\* notification t: a dict of its own, since the copy is made at every level
copied_dict(t) == t

\* what the "args" dict handed to orig_func may hold once the call is over:
\* the construction layer is free to work on the dict it is given
orig_func_leaves(args) ==
  {args, [args EXCEPT !.table = "processed"]}

\* the template once a call that was handed the dict object dict and left
\* it holding args is over: only a shared dict shows the call's work
after_call(orig_args, dict, args) ==
  IF dict = TemplateDict THEN [orig_args EXCEPT !.args = args] ELSE orig_args

\* what a notification may carry: the update and the replay flag
Updates == {"added", "modified"}

\* orig_func(**new_args) when it returns: the figure the construction layer
\* builds from the arguments; fig and trace_generator are fresh objects,
\* named by the number of the construction call
orig_func(new_args, rev, choice) ==
  DeephavenFigure(rev, OrigFunc, new_args.args, choice.data_mappings,
                  choice.has_template, choice.has_color, rev,
                  choice.has_subplots)

\* ------------------------------------------------------------------ state
VARIABLES
  figure,        \* the DeephavenFigure: published fields, listener, connection
  revOf,         \* per published field, the construction call it came from
  fig_lock,      \* DeephavenFigure.fig_lock: Unlocked or the thread holding it
  listener,      \* the DeephavenFigureListener (meaningful once initialized)
  exec_ctx,      \* threads inside "with self.exec_ctx"
  constituents,  \* live number of constituent tables of the partitioned table
  thread,        \* per notification: position and locals of on_update, the
                 \* published fields (before) and the listener's connection
                 \* (attached) as they were when it took fig_lock, the
                 \* connections whose adapter had been closed when it was
                 \* delivered (closed), the identity of the dict
                 \* new_args["args"] (args_dict), the pushes it has sent (new_args
                 \* stays what the construction call received); once done,
                 \* exc is what it raised to its caller (None: it returned)
  ticks,         \* data source changes so far
  calls,         \* construction calls that have returned a figure so far
  peer,          \* what connections received from listener pushes, in order
  adapters,      \* the DeephavenFigureConnection objects built, in order
  replies,       \* what connections received from adapters' on_data, in order
  inbound,       \* inbound messages handled by adapters, with their outcome
  reader,        \* the fetching reader: position, exporter and values read
  built          \* figures constructed directly from given call_args, for
                 \* the study of DeephavenFigure.__init__ on its own

vars ==
  <<figure, revOf, fig_lock, listener, exec_ctx, constituents, thread, ticks,
    calls, peer, adapters, replies, inbound, reader, built>>

\* the published fields of a figure-like record
Published(f) == [x \in Fields |-> f[x]]

\* faulty variant of partition_count: the count of a partitioned table taken to
\* be what it was when the table was made
partition_count_cached(table) ==
  IF table = "pt" THEN 1 ELSE -1

\* DeephavenFigureListener.partition_count
partition_count(table) ==
  IF table = "pt" THEN constituents ELSE -1

\* faulty variant of DeephavenFigureListener: the template stored as given,
\* its table entry not set to the bound table
DeephavenFigureListener_table_kept(table, orig_func_, orig_args) ==
  [table |-> table,
   partitions |-> partition_count(table),
   deephaven_figure |-> None,
   orig_func |-> orig_func_,
   orig_args |-> orig_args,
   connection |-> None,
   exporter |-> NewExporter]

\* DeephavenFigureListener.__init__
DeephavenFigureListener(table, orig_func_, orig_args) ==
  [table |-> table,
   partitions |-> partition_count(table),
   deephaven_figure |-> None,
   orig_func |-> orig_func_,
   orig_args |-> [orig_args EXCEPT !.args =
                    [k \in DOMAIN orig_args.args \cup {"table"} |->
                       IF k = "table" THEN table ELSE orig_args.args[k]]],
   connection |-> None,
   exporter |-> NewExporter]

IdleThread ==
  [pc |-> "new", new_args |-> NoneDict, new_fig |-> NoneDict,
   message |-> NoneDict, exc |-> None, k |-> 0, sent |-> 0,
   before |-> NoneDict, attached |-> None, closed |-> {}, args_dict |-> -1]

NothingSeen ==
  [fig |-> -1, _data_mappings |-> -1, has_template |-> -1, has_color |-> -1]

IdleReader ==
  [pc |-> "idle", exporter |-> NewExporter, plotly |-> 0, mappings |-> <<>>,
   is_user_set_template |-> FALSE, is_user_set_color |-> FALSE,
   data_mappings |-> <<>>, seen |-> NothingSeen, fetches |-> 0]

\* the figure the chart construction layer built first, from the user's table
FirstFigure ==
  DeephavenFigure(0, OrigFunc, [table |-> "src", template |-> <<>>],
                  <<DataMapping("t1", <<<<"x", "x">>>>)>>,
                  FALSE, FALSE, 0, FALSE)

\* no figure is being constructed directly
NotBuilding == [call_args |-> NoneDict, explicit |-> NoneDict,
                omitted |-> NoneDict]

\* the system before anything has happened
InitSystem ==
  /\ figure = [x \in Fields \cup {"listener", "connection"} |->
                 IF x \in Fields THEN FirstFigure[x] ELSE None]
  /\ revOf = [x \in Fields |-> 0]
  /\ fig_lock = Unlocked
  /\ listener = [table |-> None, partitions |-> -1, deephaven_figure |-> None,
                 orig_func |-> None, orig_args |-> NoneDict,
                 connection |-> None, exporter |-> NewExporter]
  /\ exec_ctx = {}
  /\ constituents = 1
  /\ thread = [t \in Notifiers |-> IdleThread]
  /\ ticks = 0
  /\ calls = 0
  /\ peer = <<>>
  /\ adapters = <<>>
  /\ replies = <<>>
  /\ inbound = <<>>
  /\ reader = IdleReader

Init ==
  /\ InitSystem
  /\ built = NotBuilding

\* ------------------------------------------------------------------ figure set-up
\* DeephavenFigure.initialize_listener(table, orig_func, orig_args, exec_ctx),
\* called once by the chart construction layer
initialize_listener ==
  /\ figure.listener = None
  /\ \E given \in ListenerInputs :
       listener' = DeephavenFigureListener(given.table, OrigFunc,
                                           given.orig_args)
  /\ figure' = [figure EXCEPT !.listener = "listener"]
  /\ UNCHANGED <<built, revOf, fig_lock, exec_ctx, constituents, thread, ticks,
                 calls, peer, adapters, replies, inbound, reader>>

\* the data source adds a constituent to the partitioned table
TableTick ==
  /\ ticks < MaxTicks
  /\ ticks' = ticks + 1
  /\ constituents' = constituents + 1
  /\ UNCHANGED <<built, figure, revOf, fig_lock, listener, exec_ctx, thread, calls,
                 peer, adapters, replies, inbound, reader>>

\* ------------------------------------------------------------------ notification
\* notification t is the next one the data source delivers
\* faulty variant of listener_is_none: the guard left out
listener_is_none_unchecked(f) == FALSE

\* "if self.listener is None:"
listener_is_none(f) == f.listener = None

\* faulty variant of connection_truthy: the test inverted
connection_truthy_inverted(connection) == connection = None

\* "if self.connection:"
connection_truthy(connection) == connection # None

\* faulty variant of after_exec_ctx: the exception swallowed, the assignments run
after_exec_ctx_swallowed(exc) == "assign"

\* where a thread stands once "with self.exec_ctx" is left: an exception goes
\* on unwinding "with self.fig_lock", a return is followed by the assignments
after_exec_ctx(exc) == IF exc = None THEN "assign" ELSE "release"

delivered_next(t) ==
  /\ thread[t].pc = "new"
  /\ IF t = 1 THEN TRUE ELSE thread[t - 1].pc # "new"

\* the connections on whose adapter on_close has been called
ClosedConnections ==
  {adapters[a].client_connection :
     a \in {b \in 1..Len(adapters) : adapters[b].closed}}

\* DeephavenFigure.on_update(update, is_replay) with no listener: the guard
\* raises ValueError before anything else happens
on_update_uninitialized(t) ==
  /\ \E update \in Updates, is_replay \in BOOLEAN : delivered_next(t)
  /\ listener_is_none(figure)
  /\ thread' = [thread EXCEPT ![t] = [IdleThread EXCEPT !.pc = "done",
                                                         !.exc = "ValueError"]]
  /\ UNCHANGED <<built, figure, revOf, fig_lock, listener, exec_ctx, constituents,
                 ticks, calls, peer, adapters, replies, inbound, reader>>

\* DeephavenFigure.on_update(update, is_replay) with a listener: the guard
\* passes and the thread goes on to "with self.fig_lock"
on_update_call(t) ==
  /\ \E update \in Updates, is_replay \in BOOLEAN : delivered_next(t)
  /\ ~listener_is_none(figure)
  /\ thread' = [thread EXCEPT ![t] =
                  [IdleThread EXCEPT !.pc = "lock", !.closed = ClosedConnections]]
  /\ UNCHANGED <<built, figure, revOf, fig_lock, listener, exec_ctx, constituents,
                 ticks, calls, peer, adapters, replies, inbound, reader>>

\* faulty variant of lock_is_free: the lock taken whoever holds it
lock_is_free_always(lock) == TRUE

\* threading.Lock.acquire() goes through only on a lock nobody holds
lock_is_free(lock) == lock = Unlocked

\* "with self.fig_lock:" blocks until the lock is free, then takes it
acquire_fig_lock(t) ==
  /\ thread[t].pc = "lock"
  /\ lock_is_free(fig_lock)
  /\ fig_lock' = t
  /\ thread' = [thread EXCEPT ![t].pc = "enter_ctx",
                              ![t].before = Published(figure),
                              ![t].attached = listener.connection]
  /\ UNCHANGED <<built, figure, revOf, listener, exec_ctx, constituents, ticks,
                 calls, peer, adapters, replies, inbound, reader>>

\* DeephavenFigureListener.on_update: "with self.exec_ctx:"
enter_exec_ctx(t) ==
  /\ thread[t].pc = "enter_ctx"
  /\ exec_ctx' = exec_ctx \cup {t}
  /\ thread' = [thread EXCEPT ![t].pc = "partitions"]
  /\ UNCHANGED <<built, figure, revOf, fig_lock, listener, constituents, ticks,
                 calls, peer, adapters, replies, inbound, reader>>

\* self.partitions = self.partition_count()
set_partitions(t) ==
  /\ thread[t].pc = "partitions"
  /\ listener' = [listener EXCEPT !.partitions = partition_count(listener.table)]
  /\ thread' = [thread EXCEPT ![t].pc = "copy"]
  /\ UNCHANGED <<built, figure, revOf, fig_lock, exec_ctx, constituents, ticks,
                 calls, peer, adapters, replies, inbound, reader>>

\* new_args = args_copy(self.orig_args)
copy_args(t) ==
  /\ thread[t].pc = "copy"
  /\ thread' = [thread EXCEPT ![t].pc = "call",
                              ![t].new_args = args_copy(listener.orig_args),
                              ![t].args_dict = copied_dict(t)]
  /\ UNCHANGED <<built, figure, revOf, fig_lock, listener, exec_ctx, constituents,
                 ticks, calls, peer, adapters, replies, inbound, reader>>

\* new_fig, _ = self.orig_func(**new_args), the call returning a figure
construct_returns(t) ==
  /\ thread[t].pc = "call"
  /\ \E choice \in RenderChoices :
       LET made == orig_func(thread[t].new_args, calls + 1, choice)
       IN /\ calls' = calls + 1
          /\ thread' = [thread EXCEPT ![t].pc = "to_dict",
                                      ![t].new_fig = made]
  /\ \E left \in orig_func_leaves(thread[t].new_args.args) :
       listener' = [listener EXCEPT !.orig_args =
                      after_call(listener.orig_args, thread[t].args_dict, left)]
  /\ UNCHANGED <<built, figure, revOf, fig_lock, exec_ctx, constituents,
                 ticks, peer, adapters, replies, inbound, reader>>

\* new_fig, _ = self.orig_func(**new_args), the call raising
construct_raises(t) ==
  /\ thread[t].pc = "call"
  /\ thread' = [thread EXCEPT ![t].pc = "exit_ctx",
                              ![t].exc = "ConstructionError"]
  /\ \E left \in orig_func_leaves(thread[t].new_args.args) :
       listener' = [listener EXCEPT !.orig_args =
                      after_call(listener.orig_args, thread[t].args_dict, left)]
  /\ UNCHANGED <<built, figure, revOf, fig_lock, exec_ctx, constituents,
                 ticks, calls, peer, adapters, replies, inbound, reader>>

\* new_fig.to_dict(exporter=self.exporter), its result dropped
first_to_dict(t) ==
  /\ thread[t].pc = "to_dict"
  /\ listener' = [listener EXCEPT !.exporter =
                    to_dict(thread[t].new_fig, listener.exporter).references]
  /\ thread' = [thread EXCEPT ![t].pc = "check_conn"]
  /\ UNCHANGED <<built, figure, revOf, fig_lock, exec_ctx, constituents, ticks,
                 calls, peer, adapters, replies, inbound, reader>>

\* "if self.connection:" taken
connection_attached(t) ==
  /\ thread[t].pc = "check_conn"
  /\ connection_truthy(listener.connection)
  /\ thread' = [thread EXCEPT ![t].pc = "build"]
  /\ UNCHANGED <<built, figure, revOf, fig_lock, listener, exec_ctx, constituents,
                 ticks, calls, peer, adapters, replies, inbound, reader>>

\* "if self.connection:" not taken: straight to "return new_fig"
connection_absent(t) ==
  /\ thread[t].pc = "check_conn"
  /\ ~connection_truthy(listener.connection)
  /\ thread' = [thread EXCEPT ![t].pc = "exit_ctx"]
  /\ UNCHANGED <<built, figure, revOf, fig_lock, listener, exec_ctx, constituents,
                 ticks, calls, peer, adapters, replies, inbound, reader>>

\* message = {"type": "NEW_FIGURE", "figure": new_fig.to_dict(...)}
build_message(t) ==
  /\ thread[t].pc = "build"
  /\ LET d == to_dict(thread[t].new_fig, listener.exporter)
     IN /\ listener' = [listener EXCEPT !.exporter = d.references]
        /\ thread' = [thread EXCEPT ![t].pc = "send",
                                    ![t].message = [type |-> "NEW_FIGURE",
                                                    figure |-> d.ret]]
  /\ UNCHANGED <<built, figure, revOf, fig_lock, exec_ctx, constituents, ticks,
                 calls, peer, adapters, replies, inbound, reader>>

\* what self.connection.on_data(json.dumps(message).encode(),
\* self.exporter.reference_list()) hands to the connection
push_of(message, references, new_fig) ==
  [conn |-> listener.connection,
   payload |-> encode(json_dumps(message)),
   references |-> reference_list(references),
   data_mappings |-> new_fig._data_mappings]

\* self.connection.on_data(...), the transport taking the message
push_delivered(t) ==
  /\ thread[t].pc = "send"
  /\ peer' = Append(peer, push_of(thread[t].message, listener.exporter,
                                thread[t].new_fig))
  /\ thread' = [thread EXCEPT ![t].pc = "exit_ctx",
                              ![t].sent = thread[t].sent + 1]
  /\ UNCHANGED <<built, figure, revOf, fig_lock, listener, exec_ctx, constituents,
                 ticks, calls, adapters, replies, inbound, reader>>

\* self.connection.on_data(...), the transport raising
push_raises(t) ==
  /\ thread[t].pc = "send"
  /\ thread' = [thread EXCEPT ![t].pc = "exit_ctx",
                              ![t].exc = "TransportError"]
  /\ UNCHANGED <<built, figure, revOf, fig_lock, listener, exec_ctx, constituents,
                 ticks, calls, peer, adapters, replies, inbound, reader>>

\* leaving "with self.exec_ctx": by "return new_fig", or by the exception
exit_exec_ctx(t) ==
  /\ thread[t].pc = "exit_ctx"
  /\ exec_ctx' = exec_ctx \ {t}
  /\ thread' = [thread EXCEPT ![t].pc = after_exec_ctx(thread[t].exc),
                              ![t].k = IF after_exec_ctx(thread[t].exc) = "assign"
                                       THEN 1 ELSE 0]
  /\ UNCHANGED <<built, figure, revOf, fig_lock, listener, constituents, ticks,
                 calls, peer, adapters, replies, inbound, reader>>

\* faulty variant of assigned_field: the last assignment repeats the one before it,
\* so has_subplots is never replaced
assigned_field_short(k) ==
  IF k = Len(FieldOrder) THEN FieldOrder[k - 1] ELSE FieldOrder[k]

\* the field the k-th assignment of DeephavenFigure.on_update writes
assigned_field(k) == FieldOrder[k]

\* self.<field> = new_fig.<field>, one assignment at a time
assign_field(t) ==
  /\ thread[t].pc = "assign"
  /\ LET x == assigned_field(thread[t].k)
     IN /\ figure' = [figure EXCEPT ![x] = thread[t].new_fig[x]]
        /\ revOf' = [revOf EXCEPT ![x] = thread[t].new_fig.fig]
  /\ thread' = [thread EXCEPT ![t].pc = IF thread[t].k = Len(FieldOrder)
                                        THEN "release" ELSE "assign",
                              ![t].k = thread[t].k + 1]
  /\ UNCHANGED <<built, fig_lock, listener, exec_ctx, constituents, ticks, calls,
                 peer, adapters, replies, inbound, reader>>

\* faulty variant of lock_after_with: the lock given back only when the block
\* is left without an exception
lock_after_with_on_return(t, exc) == IF exc = None THEN Unlocked ELSE t

\* fig_lock once thread t has left "with self.fig_lock": the with statement
\* releases the lock however the block is left
lock_after_with(t, exc) == Unlocked

\* leaving "with self.fig_lock": the notification ends, returning or raising
release_fig_lock(t) ==
  /\ thread[t].pc = "release"
  /\ fig_lock' = lock_after_with(t, thread[t].exc)
  /\ thread' = [thread EXCEPT ![t] =
                  [IdleThread EXCEPT !.pc = "done", !.exc = thread[t].exc]]
  /\ UNCHANGED <<built, figure, revOf, listener, exec_ctx, constituents, ticks,
                 calls, peer, adapters, replies, inbound, reader>>

\* ------------------------------------------------------------------ session adapter
\* DeephavenFigureConnection.__init__(figure_listener, client_connection):
\* the object that gets the connection attribute is the one passed in
DeephavenFigureConnection(figure_listener, client_connection, by) ==
  /\ Len(adapters) < MaxConnections
  /\ adapters' = Append(adapters,
                        [figure_listener |-> figure_listener,
                         client_connection |-> client_connection,
                         by |-> by,
                         initialized |-> figure.listener # None,
                         closed |-> FALSE])
  /\ IF figure_listener = "figure"
     THEN /\ figure' = [figure EXCEPT !.connection = client_connection]
          /\ UNCHANGED listener
     ELSE /\ listener' = [listener EXCEPT !.connection = client_connection]
          /\ UNCHANGED figure

\* the object create_client_connection(obj, connection) hands to the adapter:
\* obj, which is_type has checked to be a DeephavenFigure
adapter_target == "figure"

\* DeephavenFigureListenerType.create_client_connection(obj, connection)
create_client_connection ==
  /\ \E connection \in Conns :
       DeephavenFigureConnection(adapter_target, connection,
                                 "create_client_connection")
  /\ UNCHANGED <<built, revOf, fig_lock, exec_ctx, constituents, thread, ticks,
                 calls, peer, replies, inbound, reader>>

\* DeephavenFigureConnection(figure.listener, connection), the adapter built
\* directly on the listener of an initialized figure
connect_listener ==
  /\ figure.listener # None
  /\ \E connection \in Conns :
       DeephavenFigureConnection("listener", connection, "constructor")
  /\ UNCHANGED <<built, revOf, fig_lock, exec_ctx, constituents, thread, ticks,
                 calls, peer, replies, inbound, reader>>

\* DeephavenFigureConnection.on_close(): "pass". Nothing of the adapter, the
\* listener or the figure changes; closed only records that the call was made
\* (a further call on the same adapter changes nothing at all).
on_close(a) ==
  /\ adapters' = [adapters EXCEPT ![a].closed = TRUE]
  /\ UNCHANGED <<built, figure, revOf, fig_lock, listener, exec_ctx, constituents,
                 thread, ticks, calls, peer, replies, inbound, reader>>

\* faulty variant of execute: the references not handed back
execute_without_references(payload, references) == <<payload, <<>>>>

\* DeephavenFigureListener.execute(payload, references)
execute(payload, references) == <<payload, references>>

\* DeephavenFigureConnection.on_data(payload, references) on an adapter whose
\* figure_listener is a DeephavenFigureListener
on_data(a) ==
  /\ Len(inbound) < MaxInbound
  /\ adapters[a].figure_listener = "listener"
  /\ \E m \in InboundMessages :
       LET payload == m[1]
           references == m[2]
           result == execute(payload, references)
       IN /\ replies' = Append(replies,
                               [conn |-> adapters[a].client_connection,
                                payload |-> result[1],
                                references |-> result[2]])
          /\ inbound' = Append(inbound,
                               [adapter |-> a, payload |-> payload,
                                references |-> references,
                                outcome |-> "returned", sent |-> 1])
  /\ UNCHANGED <<built, figure, revOf, fig_lock, listener, exec_ctx, constituents,
                 thread, ticks, calls, peer, adapters, reader>>

\* DeephavenFigureConnection.on_data(payload, references) on an adapter whose
\* figure_listener is a DeephavenFigure: the figure has no execute attribute,
\* so the call raises AttributeError before anything is sent
on_data_no_execute(a) ==
  /\ Len(inbound) < MaxInbound
  /\ adapters[a].figure_listener = "figure"
  /\ \E m \in InboundMessages :
       inbound' = Append(inbound,
                         [adapter |-> a, payload |-> m[1],
                          references |-> m[2],
                          outcome |-> "AttributeError", sent |-> 0])
  /\ UNCHANGED <<built, figure, revOf, fig_lock, listener, exec_ctx, constituents,
                 thread, ticks, calls, peer, adapters, replies, reader>>

\* ------------------------------------------------------------------ fetch
\* DeephavenFigureType.to_bytes(exporter, figure) -> export_figure ->
\* figure.to_json(exporter), on the host's thread. The exporter is the host's
\* (deephaven.plugin.object_type.Exporter), a fresh one per fetch, taken to
\* hand out references as the Reference Table of the design does.

fetch_start ==
  /\ reader.pc = "idle"
  /\ reader.fetches < MaxFetches
  /\ reader' = [IdleReader EXCEPT !.pc = "read_fig",
                                  !.fetches = reader.fetches]
  /\ UNCHANGED <<built, figure, revOf, fig_lock, listener, exec_ctx, constituents,
                 thread, ticks, calls, peer, adapters, replies, inbound>>

\* plotly = json.loads(self.fig.to_json())
read_fig ==
  /\ reader.pc = "read_fig"
  /\ reader' = [reader EXCEPT !.pc = "read_mappings",
                              !.plotly = json_loads(json_dumps(figure.fig)),
                              !.seen.fig = revOf.fig]
  /\ UNCHANGED <<built, figure, revOf, fig_lock, listener, exec_ctx, constituents,
                 thread, ticks, calls, peer, adapters, replies, inbound>>

\* mappings = self.get_json_links(exporter)
read_mappings ==
  /\ reader.pc = "read_mappings"
  /\ LET l == get_json_links(figure._data_mappings, reader.exporter)
     IN reader' = [reader EXCEPT !.pc = "read_has_template",
                                 !.mappings = l.links,
                                 !.exporter = l.references,
                                 !.data_mappings = figure._data_mappings,
                                 !.seen._data_mappings = revOf._data_mappings]
  /\ UNCHANGED <<built, figure, revOf, fig_lock, listener, exec_ctx, constituents,
                 thread, ticks, calls, peer, adapters, replies, inbound>>

\* "is_user_set_template": self.has_template
read_has_template ==
  /\ reader.pc = "read_has_template"
  /\ reader' = [reader EXCEPT !.pc = "read_has_color",
                              !.is_user_set_template = figure.has_template,
                              !.seen.has_template = revOf.has_template]
  /\ UNCHANGED <<built, figure, revOf, fig_lock, listener, exec_ctx, constituents,
                 thread, ticks, calls, peer, adapters, replies, inbound>>

\* "is_user_set_color": self.has_color
read_has_color ==
  /\ reader.pc = "read_has_color"
  /\ reader' = [reader EXCEPT !.pc = "dumps",
                              !.is_user_set_color = figure.has_color,
                              !.seen.has_color = revOf.has_color]
  /\ UNCHANGED <<built, figure, revOf, fig_lock, listener, exec_ctx, constituents,
                 thread, ticks, calls, peer, adapters, replies, inbound>>

\* what the fetch hands to the host once all four reads are done:
\* json.dumps(payload).encode() and the host exporter's reference list
fetched ==
  [payload |-> encode(json_dumps(payload_document(
                 reader.plotly, reader.mappings,
                 reader.is_user_set_template, reader.is_user_set_color))),
   references |-> reference_list(reader.exporter)]

\* return json.dumps(payload), then .encode() in export_figure
fetch_return ==
  /\ reader.pc = "dumps"
  /\ reader' = [IdleReader EXCEPT !.fetches = reader.fetches + 1]
  /\ UNCHANGED <<built, figure, revOf, fig_lock, listener, exec_ctx, constituents,
                 thread, ticks, calls, peer, adapters, replies, inbound>>

\* ------------------------------------------------------------------ construction
\* DeephavenFigure.__init__ on its own: call_args is None, an empty dict, or a
\* dict in which each of the template and color options is absent, empty or
\* non-empty, next to an option that is no flag's concern (a str value is the
\* sequence of its parts, as everywhere in this module)
OptionValues ==
  [template |-> {<<>>, <<"plotly_dark">>},
   color_discrete_sequence_line |-> {<<>>, <<"red">>},
   color_discrete_sequence_marker |-> {<<>>, <<"blue">>},
   title |-> {<<"chart">>}]

CallArgsInputs ==
  {NoneDict} \cup
  UNION {[keys -> UNION {OptionValues[k] : k \in keys}] : keys \in SUBSET DOMAIN OptionValues}

WellTyped(call_args) ==
  IsNone(call_args) \/ \A k \in DOMAIN call_args : call_args[k] \in OptionValues[k]

\* the system at rest and some call_args to construct figures from
InitFlags ==
  /\ InitSystem
  /\ \E call_args \in {c \in CallArgsInputs : WellTyped(c)} :
       built = [NotBuilding EXCEPT !.call_args = call_args]

\* DeephavenFigure(call_args=..., has_template=False, has_color=...)
construct_explicit ==
  /\ IsNone(built.explicit)
  /\ \E has_color \in BOOLEAN :
       built' = [built EXCEPT !.explicit =
                   [has_color |-> has_color,
                    figure |-> DeephavenFigure(None, None, built.call_args,
                                               <<>>, FALSE, has_color, None,
                                               FALSE)]]
  /\ UNCHANGED <<figure, revOf, fig_lock, listener, exec_ctx, constituents,
                 thread, ticks, calls, peer, adapters, replies, inbound,
                 reader>>

\* DeephavenFigure(call_args=...), has_template and has_color left out
construct_omitted ==
  /\ IsNone(built.omitted)
  /\ built' = [built EXCEPT !.omitted =
                 [has_color |-> default_has_color,
                  figure |-> DeephavenFigure(None, None, built.call_args,
                                             <<>>, default_has_template,
                                             default_has_color, None, FALSE)]]
  /\ UNCHANGED <<figure, revOf, fig_lock, listener, exec_ctx, constituents,
                 thread, ticks, calls, peer, adapters, replies, inbound,
                 reader>>

NextFlags ==
  \/ construct_explicit
  \/ construct_omitted

\* DeephavenFigure.__init__ applied to every call_args of CallArgsInputs
SpecFlags == InitFlags /\ [][NextFlags]_vars

\* ------------------------------------------------------------------ specification
\* the live-update path: figure set-up, the data source, notifications and
\* the building of adapters
NextUpdate ==
  \/ initialize_listener
  \/ TableTick
  \/ \E t \in Notifiers : on_update_uninitialized(t)
  \/ \E t \in Notifiers : on_update_call(t)
  \/ \E t \in Notifiers : acquire_fig_lock(t)
  \/ \E t \in Notifiers : enter_exec_ctx(t)
  \/ \E t \in Notifiers : set_partitions(t)
  \/ \E t \in Notifiers : copy_args(t)
  \/ \E t \in Notifiers : construct_returns(t)
  \/ \E t \in Notifiers : construct_raises(t)
  \/ \E t \in Notifiers : first_to_dict(t)
  \/ \E t \in Notifiers : connection_attached(t)
  \/ \E t \in Notifiers : connection_absent(t)
  \/ \E t \in Notifiers : build_message(t)
  \/ \E t \in Notifiers : push_delivered(t)
  \/ \E t \in Notifiers : push_raises(t)
  \/ \E t \in Notifiers : exit_exec_ctx(t)
  \/ \E t \in Notifiers : assign_field(t)
  \/ \E t \in Notifiers : release_fig_lock(t)
  \/ create_client_connection
  \/ connect_listener

\* the host closing adapters
NextClose ==
  \/ \E a \in 1..Len(adapters) : on_close(a)

\* inbound peer messages handled by the adapters
NextInbound ==
  \/ \E a \in 1..Len(adapters) : on_data(a)
  \/ \E a \in 1..Len(adapters) : on_data_no_execute(a)

\* a fetch by the host
NextFetch ==
  \/ fetch_start
  \/ read_fig
  \/ read_mappings
  \/ read_has_template
  \/ read_has_color
  \/ fetch_return

Next == NextUpdate \/ NextClose \/ NextInbound \/ NextFetch

\* the whole system: notifications, adapters built and closed, inbound
\* messages and fetches running concurrently
Spec == Init /\ [][Next]_vars

\* the live-update path alone. The steps left out (fetches, inbound messages
\* and on_close) write only reader, replies, inbound and the closed mark of
\* adapters, which no step of NextUpdate reads but to copy the mark, so every
\* behaviour of Spec restricted to the other variables is a behaviour of
\* SpecUpdate.
SpecUpdate == Init /\ [][NextUpdate]_vars

\* the steps of notification t once it has been delivered
ThreadStep(t) ==
  \/ acquire_fig_lock(t)
  \/ enter_exec_ctx(t)
  \/ set_partitions(t)
  \/ copy_args(t)
  \/ construct_returns(t)
  \/ construct_raises(t)
  \/ first_to_dict(t)
  \/ connection_attached(t)
  \/ connection_absent(t)
  \/ build_message(t)
  \/ push_delivered(t)
  \/ push_raises(t)
  \/ exit_exec_ctx(t)
  \/ assign_field(t)
  \/ release_fig_lock(t)

\* the live-update path with every delivered notification's thread scheduled
\* again and again: a thread that can take a step does take one, so the
\* construction call and the push come back (returning or raising) and a
\* thread at a free lock takes it unless another one does
FairSpecUpdate ==
  Init /\ [][NextUpdate]_vars /\ \A t \in Notifiers : WF_vars(ThreadStep(t))

\* the live-update path with adapters being closed
SpecClose == Init /\ [][NextUpdate \/ NextClose]_vars

\* the live-update path with inbound messages
SpecInbound == Init /\ [][NextUpdate \/ NextInbound]_vars

\* ------------------------------------------------------------------ properties
\* the decoded message of a push, and the figure document in it
PushMessage(m) == json_loads(m.payload.bytes)
PushFigure(m) == PushMessage(m).figure

\* the pushes whose figure document is that of notification t's new figure
PushesOf(t) ==
  {i \in 1..Len(peer) : PushFigure(peer[i]).plotly = thread[t].new_fig.fig}

\* the table behind each link of a list of data mappings, link by link
RECURSIVE link_tables(_)
link_tables(data_mappings) ==
  IF Len(data_mappings) = 0 THEN <<>>
  ELSE [i \in 1..Len(data_mappings[1].data_columns) |-> data_mappings[1].table]
       \o link_tables(Tail(data_mappings))

\* the distinct tables of a sequence of tables, in first-seen order
RECURSIVE distinct(_)
distinct(tables) ==
  IF Len(tables) = 0 THEN <<>>
  ELSE LET front == distinct(SubSeq(tables, 1, Len(tables) - 1))
           last == tables[Len(tables)]
       IN IF \E i \in 1..Len(front) : front[i] = last
          THEN front ELSE Append(front, last)

\* C1: a fetch running concurrently with notifications never returns a
\* payload whose fields come from different revisions: the four fields
\* to_json has read (fig, _data_mappings, has_template, has_color) were all
\* written from the same construction call.
RevisionAtomicity ==
  reader.pc = "dumps" =>
    /\ reader.seen._data_mappings = reader.seen.fig
    /\ reader.seen.has_template = reader.seen.fig
    /\ reader.seen.has_color = reader.seen.fig

\* an Exporter's dict numbers its objects 0..n-1 in first-seen order, one
\* Reference per object
WellNumbered(references) ==
  /\ \A i \in 1..Len(references) :
       /\ references[i].value.index = i - 1
       /\ references[i].value.obj = references[i].key
  /\ \A i, j \in 1..Len(references) :
       references[i].key = references[j].key => i = j

\* every Reference handed out before is still the one handed out after
Stable(old, new) ==
  \A i \in 1..Len(old) : i <= Len(new) /\ new[i] = old[i]

Aligned(links, references, data_mappings) ==
  LET tables == link_tables(data_mappings)
  IN /\ Len(links) = Len(tables)
     /\ \A i \in 1..Len(links) :
          /\ links[i].table \in 0..(Len(references) - 1)
          /\ references[links[i].table + 1] = tables[i]
     /\ \A i, j \in 1..Len(links) :
          tables[i] = tables[j] => links[i].table = links[j].table

FreshReferenceTablePerPush ==
  \A i \in 1..Len(peer) :
    peer[i].references = distinct(link_tables(peer[i].data_mappings))

\* C5: at the moment a notification whose construction call returned P1
\* returns, all eight published fields of the figure are those of P1 and were
\* written from P1.
NotificationReplacesPayload ==
  [][\A t \in Notifiers :
       (thread[t].pc = "release" /\ thread[t].exc = None
        /\ thread'[t].pc = "done")
       => /\ Published(figure') = Published(thread[t].new_fig)
          /\ \A x \in Fields : revOf'[x] = thread[t].new_fig.fig]_vars

\* C5 witness: a notification is about to return and the figure it built
\* differs from what was published when it started
NotificationReplacesPayloadWitness ==
  \E t \in Notifiers :
    /\ thread[t].pc = "release"
    /\ thread[t].exc = None
    /\ \A x \in {"fig", "call_args", "has_template", "_data_mappings",
                 "has_subplots"} :
         thread[t].before[x] # thread[t].new_fig[x]

\* C6: a notification that returns has sent exactly one message if a
\* connection was attached when it started, of type NEW_FIGURE, to that
\* connection and holding the serialization of the figure it built; it has
\* sent nothing if no connection is attached by the time it returns, and it
\* still returns the figure it built.
ExactlyOnePushPerNotification ==
  \A t \in Notifiers :
    (thread[t].pc = "release" /\ thread[t].exc = None) =>
      /\ thread[t].new_fig.fig \in 1..calls
      /\ thread[t].attached # None =>
           /\ thread[t].sent = 1
           /\ Cardinality(PushesOf(t)) = 1
           /\ \A i \in PushesOf(t) :
                /\ PushMessage(peer[i]).type = "NEW_FIGURE"
                /\ PushFigure(peer[i]) =
                     to_dict(thread[t].new_fig, listener.exporter).ret
                /\ peer[i].conn = thread[t].attached
      /\ listener.connection = None =>
           /\ thread[t].sent = 0
           /\ PushesOf(t) = {}

\* C6 witness: a notification that started with a connection attached is
\* about to return after a second notification was pushed too
ExactlyOnePushPerNotificationWitness ==
  \E t \in Notifiers :
    /\ thread[t].pc = "release"
    /\ thread[t].exc = None
    /\ thread[t].attached # None
    /\ Len(peer) = 2

\* C7: a notification whose construction call raised leaves every published
\* field as it was when the notification started, sends no push, and goes
\* straight on to raise to its caller.
ConstructionFailureAllOrNothing ==
  \A t \in Notifiers :
    thread[t].exc = "ConstructionError" =>
      /\ thread[t].pc \in {"exit_ctx", "release", "done"}
      /\ thread[t].pc # "done" =>
           /\ Published(figure) = thread[t].before
           /\ thread[t].sent = 0
           /\ thread[t].new_fig = NoneDict
           /\ fig_lock = t

\* C7 witness: the construction call raised on a listener with a connection
\* attached, after an earlier notification had replaced the payload
ConstructionFailureWitness ==
  \E t \in Notifiers :
    /\ thread[t].exc = "ConstructionError"
    /\ thread[t].pc = "release"
    /\ thread[t].attached # None
    /\ thread[t].before.fig # 0

\* C8: while the figure has no listener, on_update only ever raises
\* ValueError at once: fig_lock is never taken, the execution context never
\* entered, no construction call made, no push sent, and every published
\* field stays what it was.
UninitializedListenerUse ==
  figure.listener = None =>
    /\ \A t \in Notifiers :
         /\ thread[t].pc \in {"new", "done"}
         /\ thread[t].pc = "done" => thread[t].exc = "ValueError"
    /\ fig_lock = Unlocked
    /\ exec_ctx = {}
    /\ calls = 0
    /\ peer = <<>>
    /\ Published(figure) = FirstFigure
    /\ \A x \in Fields : revOf[x] = 0

\* C8 witness: on_update has been called, and has raised, on a figure that
\* still has no listener
UninitializedListenerUseWitness ==
  /\ figure.listener = None
  /\ \E t \in Notifiers : thread[t].pc = "done" /\ thread[t].exc = "ValueError"

\* C9: once create_client_connection(figure, connection) has built the
\* adapter of a figure whose listener is initialized, that listener has the
\* connection attached (so that its later notifications push to it).
SessionAdapterBackReference ==
  \A a \in 1..Len(adapters) :
    (adapters[a].by = "create_client_connection" /\ adapters[a].initialized)
    => listener.connection = adapters[a].client_connection

\* C10: every inbound message delivered to an adapter built by
\* create_client_connection is handled without raising and answered with
\* exactly one message to the peer, equal to the message that came in.
InboundRoundTrip ==
  \A i \in 1..Len(inbound) :
    adapters[inbound[i].adapter].by = "create_client_connection" =>
      /\ inbound[i].outcome = "returned"
      /\ inbound[i].sent = 1
      /\ \E r \in 1..Len(replies) :
           /\ replies[r].conn = adapters[inbound[i].adapter].client_connection
           /\ replies[r].payload = inbound[i].payload
           /\ replies[r].references = inbound[i].references

\* C11: a notification delivered after on_close was called on the adapter of a
\* connection sends no push to that connection.
CloseReleasesBinding ==
  \A t \in Notifiers :
    thread[t].sent > 0 =>
      \A i \in PushesOf(t) : peer[i].conn \notin thread[t].closed

\* call_args holds option k with a non-empty value
HoldsNonEmpty(call_args, k) ==
  /\ ~IsNone(call_args)
  /\ k \in DOMAIN call_args
  /\ call_args[k] # <<>>

\* C12: a figure constructed with has_template=False and one constructed with
\* has_template omitted have the same has_template, true exactly when
\* call_args holds a non-empty template; has_color, when not given as true,
\* is true exactly when call_args holds a non-empty
\* color_discrete_sequence_line or color_discrete_sequence_marker.
FlagDerivation ==
  /\ (~IsNone(built.explicit) /\ ~IsNone(built.omitted)) =>
       built.explicit.figure.has_template = built.omitted.figure.has_template
  /\ \A b \in {built.explicit, built.omitted} :
       ~IsNone(b) =>
         /\ b.figure.has_template = HoldsNonEmpty(built.call_args, "template")
         /\ ~b.has_color =>
              b.figure.has_color =
                (\/ HoldsNonEmpty(built.call_args,
                                  "color_discrete_sequence_line")
                 \/ HoldsNonEmpty(built.call_args,
                                  "color_discrete_sequence_marker"))

\* C12 witness: both figures are constructed from call_args with an empty
\* template, an empty line sequence and a non-empty marker sequence
FlagDerivationWitness ==
  /\ ~IsNone(built.explicit)
  /\ ~IsNone(built.omitted)
  /\ ~built.explicit.has_color
  /\ ~IsNone(built.call_args)
  /\ DOMAIN built.call_args = {"template", "color_discrete_sequence_line",
                               "color_discrete_sequence_marker"}
  /\ built.call_args.template = <<>>
  /\ built.call_args.color_discrete_sequence_line = <<>>
  /\ built.call_args.color_discrete_sequence_marker = <<"blue">>
  /\ built.omitted.figure.has_color

\* C13: a notification whose construction call returned and whose push
\* raised has, by the time it ends, replaced the published fields by those of
\* the figure it built.
RecomputeIndependentOfPush ==
  \A t \in Notifiers :
    (thread[t].pc = "release" /\ thread[t].exc = "TransportError") =>
      Published(figure) = Published(thread[t].new_fig)

\* the positions of a notification from the start of listener.on_update to
\* the end of the replacement of the figure's fields
InRecompute ==
  {"enter_ctx", "partitions", "copy", "call", "to_dict", "check_conn",
   "build", "send", "exit_ctx", "assign", "release"}

\* C14: at most one notification at a time is between the start of its
\* recompute and the end of its replacement of the figure's fields, and it is
\* the one holding fig_lock; every other notification is not yet there or is
\* through.
RecomputesSerialized ==
  /\ Cardinality({t \in Notifiers : thread[t].pc \in InRecompute}) <= 1
  /\ \A t \in Notifiers : thread[t].pc \in InRecompute => fig_lock = t

\* C14 witness: one notification is half way through the replacement while
\* another one waits for fig_lock
RecomputesSerializedWitness ==
  \E t, u \in Notifiers :
    /\ thread[t].pc = "assign"
    /\ thread[t].k = 4
    /\ thread[u].pc = "lock"

\* an inbound message can be handed to an adapter built on the listener
ExecuteCallable ==
  /\ Len(inbound) < MaxInbound
  /\ \E a \in 1..Len(adapters) : adapters[a].figure_listener = "listener"

\* this step is a call of listener.execute through on_data
ExecuteStep ==
  /\ Len(inbound') = Len(inbound) + 1
  /\ inbound'[Len(inbound')].outcome = "returned"

\* C15: listener.execute hands back exactly the payload and the references it
\* was given, changes nothing of the listener, the figure, the lock or the
\* notifications, and can be called and completes in every state, whether or
\* not a notification holds fig_lock or the execution context.
ExecutePassthrough ==
  /\ [](ExecuteCallable => ENABLED (\E a \in 1..Len(adapters) : on_data(a)))
  /\ [][ExecuteStep =>
         /\ Len(replies') = Len(replies) + 1
         /\ replies'[Len(replies')].payload = inbound'[Len(inbound')].payload
         /\ replies'[Len(replies')].references =
              inbound'[Len(inbound')].references
         /\ UNCHANGED <<figure, revOf, fig_lock, listener, exec_ctx, thread,
                        calls, peer, adapters>>]_vars

\* C15 witness: a message with a reference went through execute on an adapter
\* that was built after a notification had taken fig_lock, and that
\* notification is still inside its recompute
ExecutePassthroughWitness ==
  /\ Len(inbound) = 1
  /\ inbound[1].outcome = "returned"
  /\ inbound[1].references # <<>>
  /\ \E t \in Notifiers :
       /\ thread[t].pc \in InRecompute
       /\ fig_lock = t
       /\ t \in exec_ctx
       /\ thread[t].attached = None

\* C16: the construction call of every notification receives a dict of its
\* own, equal to the listener's stored orig_args, whose table entry is the
\* table the listener was bound to; the stored orig_args and the bound table
\* are never changed once the listener exists.
RecomputeUsesBoundTable ==
  /\ [](\A t \in Notifiers :
         thread[t].pc = "call" =>
           /\ thread[t].new_args = listener.orig_args
           /\ thread[t].new_args.args.table = listener.table
           /\ thread[t].args_dict # TemplateDict)
  /\ [][figure.listener # None =>
         /\ listener'.orig_args = listener.orig_args
         /\ listener'.table = listener.table]_vars

\* C16 witness: a construction call is about to be made on a listener bound
\* to the partitioned table, after an earlier call has returned
RecomputeUsesBoundTableWitness ==
  \E t \in Notifiers :
    /\ thread[t].pc = "call"
    /\ calls = 1
    /\ listener.table = "pt"
    /\ listener.orig_args.args.table = "pt"

\* C17: when a NEW_FIGURE message for a revision has just been handed to the
\* connection, the published fields of the figure are already those of that
\* revision.
PushFollowsReplacement ==
  \A t \in Notifiers :
    (thread[t].pc = "exit_ctx" /\ thread[t].sent > 0) =>
      Published(figure) = Published(thread[t].new_fig)

\* the number of constituent tables the data source holds for a table, -1
\* for a table that is not partitioned
LiveCount(table) == IF table = "pt" THEN constituents ELSE -1

\* C18: when the listener is created, and whenever a notification has run
\* its partition-count step, listener.partitions is the live number of
\* constituents of the bound table at that moment, or -1 for a table that is
\* not partitioned.
PartitionCountFresh ==
  [][/\ (figure.listener = None /\ figure'.listener # None) =>
          listener'.partitions = LiveCount(listener'.table)
     /\ \A t \in Notifiers :
          (thread[t].pc = "partitions" /\ thread'[t].pc = "copy") =>
            listener'.partitions = LiveCount(listener.table)]_vars

\* C18 witness: a notification has just counted the partitions of a
\* partitioned table that gained a constituent after the listener was made
PartitionCountFreshWitness ==
  \E t \in Notifiers :
    /\ thread[t].pc = "copy"
    /\ listener.table = "pt"
    /\ ticks = 1
    /\ listener.partitions = 2

\* no notification is under way
Quiescent == \A t \in Notifiers : thread[t].pc \in {"new", "done"}

\* C20: the revisions of the NEW_FIGURE messages reach the connection in the
\* order in which they replace the published state, and once no notification
\* is under way the revision of the last message pushed is the revision the
\* figure publishes, in every field.
PeerServerConverge ==
  /\ \A i, j \in 1..Len(peer) :
       i < j => PushFigure(peer[i]).plotly < PushFigure(peer[j]).plotly
  /\ (Quiescent /\ Len(peer) > 0) =>
       /\ figure.fig = PushFigure(peer[Len(peer)]).plotly
       /\ \A x \in Fields : revOf[x] = PushFigure(peer[Len(peer)]).plotly
       /\ figure._data_mappings = peer[Len(peer)].data_mappings

\* C20 witness: two notifications have both pushed and both finished
PeerServerConvergeWitness ==
  /\ Len(peer) = 2
  /\ \A t \in Notifiers : thread[t].pc = "done" /\ thread[t].exc = None

\* C19: a notification that has ended, however it ended, holds neither
\* fig_lock nor the execution context, and with no notification under way
\* both are free; so every notification waiting for fig_lock gets it and
\* ends.
GuaranteedRelease ==
  /\ [](/\ \A t \in Notifiers :
            thread[t].pc = "done" => (fig_lock # t /\ t \notin exec_ctx)
        /\ Quiescent => (fig_lock = Unlocked /\ exec_ctx = {}))
  /\ \A t \in Notifiers : (thread[t].pc = "lock") ~> (thread[t].pc = "done")

\* C19 witness: a notification has ended with the push raising, another with
\* the construction call raising, and both fig_lock and the execution
\* context are free
GuaranteedReleaseWitness ==
  /\ \E t \in Notifiers :
       thread[t].pc = "done" /\ thread[t].exc = "TransportError"
  /\ \E t \in Notifiers :
       thread[t].pc = "done" /\ thread[t].exc = "ConstructionError"
  /\ fig_lock = Unlocked
  /\ exec_ctx = {}

====
